---- MODULE Spec2Model ----
(***************************************************************************)
(* A model of g-sorcery's overlay backend: the dependency resolver         *)
(* (Backend.get_dependencies / Backend.solve_dependencies), the tree       *)
(* synchronizer (Backend.generate_tree / Backend.update_tree) and the      *)
(* Manifest digest engine (Backend.digest, Backend.fast_digest,            *)
(* fileutils.fast_manifest).                                               *)
(***************************************************************************)
EXTENDS Integers, Sequences, FiniteSets, TLC

(***************************************************************************)
(* Bounds of the model.                                                    *)
(***************************************************************************)
\* most versions the database lists for one category/name
MaxVers == 2
\* most dependency references one package description declares
MaxDeps == 2
\* most auxiliary files under files/ of a package directory
MaxAux == 1
\* most distfiles a Manifest has DIST lines for
MaxDist == 1
\* most synchronization passes in one behaviour
MaxPasses == 2
\* most package directories the ebuild tool fails on in one pass
MaxFails == 1
\* most components of a version after the leading one, the largest
\* component, the largest qualifier number, and the most qualifiers (suffix
\* letter included) one version carries
MaxComponents == 2
MaxNumber == 1
MaxQualifier == 2
MaxQualifiers == 2
\* the largest revision -rN of a dependency's version
MaxRevision == 1

(***************************************************************************)
(* The universe of identifiers.                                            *)
(***************************************************************************)
Cats == {"c1", "c2"}
Names == {"a", "b", "c"}
Versions == 1 .. MaxVers

\* g_collections.Package: (category, name, version), structural equality
Package(category, package, version) ==
    [category |-> category, name |-> package, version |-> version]

\* g_collections.Dependency: only the fields the backend reads or ignores
\* (version 0 and operator "" stand for the empty strings of a bare atom)
Dependency(category, package, version, operator) ==
    [category |-> category, package |-> package,
     version |-> version, operator |-> operator]

(***************************************************************************)
(* The package database (package_db.PackageDB), a collaborator of the      *)
(* backend.  A database value is a record                                  *)
(*   listing      : <<category, name>> -> number of versions listed        *)
(*                  (versions 1 .. n, 0: the name is not in the category)  *)
(*   dependencies : <<category, name>> -> sequence of Dependency           *)
(*   nodesc       : the listed packages the description lookup misses      *)
(***************************************************************************)
CatNames == Cats \X Names

list_categories(d) ==
    {c \in Cats : \E n \in Names : d.listing[<<c, n>>] > 0}

in_category(d, category, name) ==
    /\ <<category, name>> \in CatNames
    /\ d.listing[<<category, name>>] > 0

\* list_package_versions raises InvalidKeyError exactly when ~HasKey
HasKey(d, category, name) == in_category(d, category, name)

list_package_versions(d, category, name) ==
    [i \in 1 .. d.listing[<<category, name>>] |-> i]

\* get_package_description raises KeyError exactly when ~HasDescription
HasDescription(d, p) ==
    /\ HasKey(d, p.category, p.name)
    /\ p.version \in 1 .. d.listing[<<p.category, p.name>>]
    /\ p \notin d.nodesc

get_package_description(d, p) ==
    [dependencies |-> d.dependencies[<<p.category, p.name>>]]

\* iteration over the database: every package with its description
AllPackages == [category : Cats, name : Names, version : Versions]

DBPackages(d) == {p \in AllPackages : HasDescription(d, p)}

list_catpkg_names(d) ==
    {cn \in CatNames : d.listing[cn] > 0}

(***************************************************************************)
(* The databases the model starts from.  Category c1 holds a and b (and c  *)
(* when it is listed at all); category c2 holds a second package named a,  *)
(* so the bare name "a" is ambiguous, "b" is unique and "c" may be         *)
(* unknown.  Dependency lists are duplicate-free lists over the names of   *)
(* c1 in a fixed order.  The references declared by a carry a version and  *)
(* an operator, those of b and c are bare.                                 *)
(***************************************************************************)
TargetSeq == << <<"c1", "a">>, <<"c1", "b">>, <<"c1", "c">> >>
Targets == {TargetSeq[i] : i \in 1 .. Len(TargetSeq)}

TargetLists ==
    {SelectSeq(TargetSeq, LAMBDA t : t \in S) :
        S \in {T \in SUBSET Targets : Cardinality(T) <= MaxDeps}}

RefsOf(owner, targets) ==
    [i \in 1 .. Len(targets) |->
        IF owner = "a"
        THEN Dependency(targets[i][1], targets[i][2], 1, "=")
        ELSE Dependency(targets[i][1], targets[i][2], 0, "")]

MkDB(na, nb, nc, da, db_, dc, miss) ==
    [listing |->
        [cn \in CatNames |->
            CASE cn = <<"c1", "a">> -> na
              [] cn = <<"c1", "b">> -> nb
              [] cn = <<"c1", "c">> -> nc
              [] cn = <<"c2", "a">> -> 1
              [] OTHER -> 0],
     dependencies |->
        [cn \in CatNames |->
            CASE cn = <<"c1", "a">> -> RefsOf("a", da)
              [] cn = <<"c1", "b">> -> RefsOf("b", db_)
              [] cn = <<"c1", "c">> -> IF nc = 0 THEN << >> ELSE RefsOf("c", dc)
              [] OTHER -> << >>],
     nodesc |-> IF miss THEN {Package("c1", "b", nb)} ELSE {}]

DBs ==
    {MkDB(na, nb, nc, da, db_, dc, miss) :
        na \in Versions, nb \in Versions, nc \in 0 .. MaxVers,
        da \in TargetLists, db_ \in TargetLists, dc \in TargetLists,
        miss \in BOOLEAN}

\* the package names a caller may ask for, as the parts of pkgname.split('/')
PkgNames ==
    { <<"a">>, <<"b">>, <<"c">>,
      <<"c1", "a">>, <<"c1", "b">>, <<"c1", "c">>,
      <<"a", "b", "c">> }

(***************************************************************************)
(* The overlay on disk.  A directory of the tree is a record               *)
(*   exists       : the directory is there                                 *)
(*   ebuilds      : version -> content of <name>-<version>.ebuild          *)
(*   aux          : the files under files/                                 *)
(*   metadata     : content of metadata.xml, NoFile when it is missing     *)
(*   has_manifest : Manifest is a file                                     *)
(*   manifest     : the lines of Manifest                                  *)
(* A content is what a generator wrote: its kind, the version it was       *)
(* generated for and, for an ebuild, the generator class (with or without  *)
(* digest).                                                                *)
(***************************************************************************)
SpecialDirs ==
    { <<"eclass", "tests">>, <<"profiles", "updates">>,
      <<"metadata", "md5-cache">>, <<".git", "hooks">> }
\* the two files a pass writes outside the package directories; of their
\* entry only exists is used: the file is there
ReservedFiles == { <<"profiles", "repo_name">>, <<"metadata", "layout.conf">> }
Dirs == CatNames \cup SpecialDirs \cup ReservedFiles

NoFile == [kind |-> "", version |-> 0, digest |-> FALSE]

NoDirectory ==
    [exists |-> FALSE, ebuilds |-> << >>, aux |-> {}, metadata |-> NoFile,
     has_manifest |-> FALSE, manifest |-> << >>]

EmptyDirectory == [NoDirectory EXCEPT !.exists = TRUE]

\* ebuild_g.generate(package, ebuild_data), joined and encoded
EbuildSource(package, digest) ==
    [kind |-> "ebuild", version |-> package.version, digest |-> digest]

\* metadata_g.generate(package), joined and encoded
MetadataSource(package) ==
    [kind |-> "metadata", version |-> package.version, digest |-> FALSE]

AuxSource(name) == [kind |-> "aux", version |-> name, digest |-> FALSE]

(***************************************************************************)
(* fileutils.ManifestEntry and fileutils.fast_manifest.  A Manifest line   *)
(* is "<ftype> <name> <size> SHA512 <hex> BLAKE2B <hex>"; size and both    *)
(* digests are functions of the content read.  File names are kept as      *)
(* their rank in string order within their kind (a one-digit version for   *)
(* <name>-<version>.ebuild), so comparing (ftype, name) is comparing the   *)
(* lines as strings.                                                       *)
(***************************************************************************)
ManifestEntry(ftype, name, content) ==
    [ftype |-> ftype, name |-> name, digest |-> content]

\* a "DIST <distfile> <size> ..." line, as the ebuild tool writes it
DistLine(name) == [ftype |-> "DIST", name |-> name, digest |-> NoFile]

FtypeRank(ftype) ==
    CASE ftype = "AUX" -> 1
      [] ftype = "DIST" -> 2
      [] ftype = "EBUILD" -> 3
      [] ftype = "MISC" -> 4

\* str.__lt__ on two Manifest lines
LineLess(x, y) ==
    \/ FtypeRank(x.ftype) < FtypeRank(y.ftype)
    \/ /\ x.ftype = y.ftype
       /\ x.name < y.name

\* list.sort()
RECURSIVE InsertLine(_, _)
InsertLine(x, sorted) ==
    IF sorted = << >>
    THEN <<x>>
    ELSE IF LineLess(x, Head(sorted))
    THEN <<x>> \o sorted
    ELSE <<Head(sorted)>> \o InsertLine(x, Tail(sorted))

RECURSIVE SortLines(_)
SortLines(lines) ==
    IF lines = << >>
    THEN << >>
    ELSE InsertLine(lines[Len(lines)],
                    SortLines(SubSeq(lines, 1, Len(lines) - 1)))

\* the orders in which a directory listing (glob) may yield a set of files
Orderings(S) ==
    {q \in [1 .. Cardinality(S) -> S] : \A x \in S : \E i \in DOMAIN q : q[i] = x}

\* some enumeration of a finite set
SeqOf(S) == CHOOSE q \in Orderings(S) : TRUE

\* the Manifest a successful run of the ebuild tool writes: sorted entries
\* for the files present and DIST lines for the distfiles
ToolManifest(ebuilds, aux, metadata, dists) ==
    LET vs == SeqOf(DOMAIN ebuilds)
        as == SeqOf(aux)
        ds == SeqOf(dists)
    IN  SortLines(
            [i \in 1 .. Len(as) |-> ManifestEntry("AUX", as[i], AuxSource(as[i]))]
            \o [i \in 1 .. Len(vs) |->
                  ManifestEntry("EBUILD", vs[i], ebuilds[vs[i]])]
            \o (IF metadata # NoFile
                THEN <<ManifestEntry("MISC", 1, metadata)>>
                ELSE << >>)
            \o [i \in 1 .. Len(ds) |-> DistLine(ds[i])])

\* a fast strategy that carries every line of the old Manifest over
fast_manifestKeepsOldLines(directory, auxs, ebuilds) ==
    LET entries ==
            [i \in 1 .. Len(auxs) |->
                ManifestEntry("AUX", auxs[i], AuxSource(auxs[i]))]
            \o [i \in 1 .. Len(ebuilds) |->
                ManifestEntry("EBUILD", ebuilds[i], directory.ebuilds[ebuilds[i]])]
            \o (IF directory.metadata # NoFile
                THEN <<ManifestEntry("MISC", 1, directory.metadata)>>
                ELSE << >>)
        manifest ==
            IF directory.has_manifest
            THEN SortLines(entries \o directory.manifest)
            ELSE entries
    IN  [directory EXCEPT !.has_manifest = TRUE, !.manifest = manifest]

\* a fast strategy that writes the fresh entries only
fast_manifestDropsDist(directory, auxs, ebuilds) ==
    LET entries ==
            [i \in 1 .. Len(auxs) |->
                ManifestEntry("AUX", auxs[i], AuxSource(auxs[i]))]
            \o [i \in 1 .. Len(ebuilds) |->
                ManifestEntry("EBUILD", ebuilds[i], directory.ebuilds[ebuilds[i]])]
            \o (IF directory.metadata # NoFile
                THEN <<ManifestEntry("MISC", 1, directory.metadata)>>
                ELSE << >>)
    IN  [directory EXCEPT !.has_manifest = TRUE,
                          !.manifest = SortLines(entries)]

\* fast_manifest(directory): auxs and ebuilds are the two glob results
fast_manifest(directory, auxs, ebuilds) ==
    LET entries ==
            [i \in 1 .. Len(auxs) |->
                ManifestEntry("AUX", auxs[i], AuxSource(auxs[i]))]
            \o [i \in 1 .. Len(ebuilds) |->
                ManifestEntry("EBUILD", ebuilds[i], directory.ebuilds[ebuilds[i]])]
            \o (IF directory.metadata # NoFile
                THEN <<ManifestEntry("MISC", 1, directory.metadata)>>
                ELSE << >>)
        manifest ==
            IF directory.has_manifest
            THEN SortLines(entries
                           \o SelectSeq(directory.manifest,
                                        LAMBDA line : line.ftype = "DIST"))
            ELSE entries
    IN  [directory EXCEPT !.has_manifest = TRUE, !.manifest = manifest]

\* the lines of a Manifest that are, and are not, DIST lines
NonDistLines(manifest) == SelectSeq(manifest, LAMBDA line : line.ftype # "DIST")
DistLines(manifest) == SelectSeq(manifest, LAMBDA line : line.ftype = "DIST")

(***************************************************************************)
(* State.                                                                  *)
(***************************************************************************)
VARIABLES
    db,              \* the package database (read-only for the backend)
    pc,              \* where the running call stands
    pkgname,         \* get_dependencies: the parts of pkgname.split('/')
    category,        \* get_dependencies: the category the name resolved to
    versions,        \* get_dependencies: versions still to be solved
    dependencies,    \* get_dependencies: the set accumulated so far
    stack,           \* solve_dependencies: the active recursion
    solved_deps,     \* solve_dependencies: the resolved set
    unsolved_deps,   \* solve_dependencies: the in-progress set
    error,           \* the exception the call ended with
    result,          \* the set the call returned
    tree,            \* the overlay: directory -> its files
    op,              \* the operation that ran last on the overlay
    pass,            \* the synchronization pass running or last run
    prev,            \* the inputs of the completed pass before it
    passes,          \* the number of passes started
    call             \* the value operation applied last and what it gave

resolver_vars == <<pc, pkgname, category, versions, dependencies, stack,
                   solved_deps, unsolved_deps, error, result>>

\* what the resolver does not touch
outside == <<db, tree, op, pass, prev, passes, call>>

vars == <<db, resolver_vars, tree, op, pass, prev, passes, call>>

NoPackage == Package("", "", 0)
NoOp == [name |-> "", dir |-> <<"", "">>, error |-> ""]
NoCall == [fn |-> ""]

\* a pass: its command and configured package names, the names still to
\* resolve and the dependencies resolved so far, the arguments read, the
\* effective package set, what the log says (generated, refreshed, scrub,
\* cleaning, keeping, erasing), the directories the ebuild tool failed on,
\* how it ended, the order in which the loop met the versions, and the
\* names Backend.digest and Backend.fast_digest worked on
NoPass ==
    [mode |-> "", status |-> "idle", packages |-> << >>, todo |-> << >>,
     deps |-> {}, digest |-> FALSE, keep |-> FALSE, erase |-> FALSE,
     effective |-> {}, generated |-> {}, kept |-> {}, cleaned |-> {},
     retained |-> {}, scrubbed |-> {}, erased |-> {}, failed |-> {},
     error |-> "", iter |-> << >>, digested |-> {}, fast_digested |-> {}]
NoPrev ==
    [mode |-> "", packages |-> << >>, digest |-> FALSE, keep |-> FALSE,
     erase |-> FALSE, erased |-> {}]
NoError == [type |-> "", what |-> "", package |-> NoPackage]
Raise(type, what, package) == [type |-> type, what |-> what, package |-> package]

(***************************************************************************)
(* Backend.get_dependencies: name parsing and category lookup.             *)
(***************************************************************************)
\* the categories containing name, in list_categories order
CategoriesOf(d, name) ==
    SelectSeq(<<"c1", "c2">>,
              LAMBDA cat : cat \in list_categories(d) /\ in_category(d, cat, name))

\* a lookup that settles an ambiguous name on the first candidate category
ResolveNameFirstCategory(d, parts) ==
    IF Len(parts) > 2
    THEN [error |-> "bad package name", category |-> "", name |-> ""]
    ELSE IF Len(parts) = 2 /\ parts[1] # ""
    THEN [error |-> "", category |-> parts[1], name |-> parts[2]]
    ELSE LET name == parts[Len(parts)]
             categories == CategoriesOf(d, name)
         IN  IF Len(categories) = 0
             THEN [error |-> "no package found", category |-> "", name |-> name]
             ELSE [error |-> "", category |-> categories[1], name |-> name]

\* lines 341-374: an error, or the category and name to solve.  An empty
\* category part is falsy and is looked up like a bare name.
ResolveName(d, parts) ==
    IF Len(parts) > 2
    THEN [error |-> "bad package name", category |-> "", name |-> ""]
    ELSE IF Len(parts) = 2 /\ parts[1] # ""
    THEN [error |-> "", category |-> parts[1], name |-> parts[2]]
    ELSE LET name == parts[Len(parts)]
             categories == CategoriesOf(d, name)
         IN  IF Len(categories) = 0
             THEN [error |-> "no package found", category |-> "", name |-> name]
             ELSE IF Len(categories) > 1
             THEN [error |-> "ambiguous packagename", category |-> "",
                   name |-> name]
             ELSE [error |-> "", category |-> categories[1], name |-> name]

(***************************************************************************)
(* Backend.solve_dependencies.                                             *)
(***************************************************************************)
\* a loop that honours an "=" reference: only the named version is pulled in
RECURSIVE ChildPackagesPinned(_, _)
ChildPackagesPinned(d, deps) ==
    IF deps = << >>
    THEN << >>
    ELSE LET pkg == Head(deps)
             here == IF HasKey(d, pkg.category, pkg.package)
                     THEN LET vs == SelectSeq(
                                      list_package_versions(d, pkg.category,
                                                            pkg.package),
                                      LAMBDA v : pkg.operator # "=" \/ v = pkg.version)
                          IN  [i \in 1 .. Len(vs) |->
                                 Package(pkg.category, pkg.package, vs[i])]
                     ELSE << >>
         IN  here \o ChildPackagesPinned(d, Tail(deps))

\* lines 425-435: the packages one description's loop recurses into, in
\* order: every listed version of every reference whose key exists; a
\* reference whose key is missing raises InvalidKeyError and is skipped.
\* The version and operator of the reference are not read.
RECURSIVE ChildPackages(_, _)
ChildPackages(d, deps) ==
    IF deps = << >>
    THEN << >>
    ELSE LET pkg == Head(deps)
             here == IF HasKey(d, pkg.category, pkg.package)
                     THEN LET vs == list_package_versions(d, pkg.category,
                                                          pkg.package)
                          IN  [i \in 1 .. Len(vs) |->
                                 Package(pkg.category, pkg.package, vs[i])]
                     ELSE << >>
         IN  here \o ChildPackages(d, Tail(deps))

\* the package the next invocation of solve_dependencies is for: the next
\* version of the start name (line 378), or the next child of the innermost
\* active invocation (line 430)
TopLevel == stack = << >>
Top == stack[Len(stack)]
Callee ==
    IF TopLevel
    THEN Package(category, pkgname[Len(pkgname)], Head(versions))
    ELSE Head(Top.todo)
CanCall ==
    /\ pc = "solving"
    /\ IF TopLevel THEN versions # << >> ELSE Top.todo # << >>

\* the callee is consumed from the caller's loop
AfterCall ==
    IF TopLevel
    THEN /\ versions' = Tail(versions)
         /\ stack' = stack
    ELSE /\ versions' = versions
         /\ stack' = [stack EXCEPT ![Len(stack)].todo = Tail(@)]

\* lines 403-404: the package is already solved and `return solved_deps`
\* hands back the bare set, not the pair.  A top-level call starts from
\* empty sets, so the caller is line 430, which unpacks the set into two
\* names: a set of another size than two raises ValueError; a set of two
\* binds both names to Package objects, and the caller's next use of them
\* raises TypeError (`package in solved_deps` of the next invocation) or
\* AttributeError (`solved_deps.add` when the loops are over).
SolveAlreadySolved ==
    /\ CanCall
    /\ ~TopLevel
    /\ Callee \in solved_deps
    /\ pc' = "raised"
    /\ error' = Raise(IF Cardinality(solved_deps) # 2 THEN "ValueError"
                      ELSE IF Tail(Top.todo) # << >> THEN "TypeError"
                      ELSE "AttributeError",
                      "unpack", Callee)
    /\ UNCHANGED <<outside, pkgname, category, versions, dependencies, stack,
                   solved_deps, unsolved_deps, result>>

\* lines 405-408: the package is in progress
SolveCircular ==
    /\ CanCall
    /\ Callee \notin solved_deps
    /\ Callee \in unsolved_deps
    /\ pc' = "raised"
    /\ error' = Raise("DependencyError", "circular dependency", Callee)
    /\ UNCHANGED <<outside, pkgname, category, versions, dependencies, stack,
                   solved_deps, unsolved_deps, result>>

\* a miss that forgets line 421 and leaves the package in progress
SolveNotFoundLeftInProgress ==
    /\ CanCall
    /\ Callee \notin solved_deps
    /\ Callee \notin unsolved_deps
    /\ ~HasDescription(db, Callee)
    /\ AfterCall
    /\ unsolved_deps' = unsolved_deps \cup {Callee}
    /\ UNCHANGED <<outside, pc, pkgname, category, dependencies, solved_deps,
                   error, result>>

\* lines 409-422: no description: the package is logged, taken out of the
\* in-progress set again and the invocation returns the pair
SolveNotFound ==
    /\ CanCall
    /\ Callee \notin solved_deps
    /\ Callee \notin unsolved_deps
    /\ ~HasDescription(db, Callee)
    /\ AfterCall
    /\ unsolved_deps' = (unsolved_deps \cup {Callee}) \ {Callee}
    /\ UNCHANGED <<outside, pc, pkgname, category, dependencies, solved_deps,
                   error, result>>

\* lines 409-425: the package is marked in progress and its loop starts
SolveExpand ==
    /\ CanCall
    /\ Callee \notin solved_deps
    /\ Callee \notin unsolved_deps
    /\ HasDescription(db, Callee)
    /\ unsolved_deps' = unsolved_deps \cup {Callee}
    /\ LET desc == get_package_description(db, Callee)
           frame == [package |-> Callee,
                     todo |-> ChildPackages(db, desc.dependencies)]
       IN  IF TopLevel
           THEN /\ versions' = Tail(versions)
                /\ stack' = <<frame>>
           ELSE /\ versions' = versions
                /\ stack' = Append([stack EXCEPT ![Len(stack)].todo = Tail(@)],
                                    frame)
    /\ UNCHANGED <<outside, pc, pkgname, category, dependencies, solved_deps,
                   error, result>>

\* a loop end that forgets line 438 and leaves the package in progress
SolveFinishKeepsInProgress ==
    /\ pc = "solving"
    /\ ~TopLevel
    /\ Top.todo = << >>
    /\ stack' = SubSeq(stack, 1, Len(stack) - 1)
    /\ unsolved_deps' = unsolved_deps
    /\ IF Len(stack) = 1
       THEN /\ dependencies' = dependencies \cup (solved_deps \cup {Top.package})
            /\ solved_deps' = {}
       ELSE /\ dependencies' = dependencies
            /\ solved_deps' = solved_deps \cup {Top.package}
    /\ UNCHANGED <<outside, pc, pkgname, category, versions, error, result>>

\* lines 437-440: the loop is over: the package moves from in progress
\* to solved and the pair is returned; line 378 adds the solved set of a
\* top-level invocation to the dependencies
SolveFinish ==
    /\ pc = "solving"
    /\ ~TopLevel
    /\ Top.todo = << >>
    /\ stack' = SubSeq(stack, 1, Len(stack) - 1)
    /\ unsolved_deps' = unsolved_deps \ {Top.package}
    /\ IF Len(stack) = 1
       THEN /\ dependencies' = dependencies \cup (solved_deps \cup {Top.package})
            /\ solved_deps' = {}
       ELSE /\ dependencies' = dependencies
            /\ solved_deps' = solved_deps \cup {Top.package}
    /\ UNCHANGED <<outside, pc, pkgname, category, versions, error, result>>

(***************************************************************************)
(* Backend.get_dependencies.                                               *)
(***************************************************************************)
\* lines 341-376: parse the name, find its category, list its versions
GetDependenciesEnter(parts) ==
    LET r == ResolveName(db, parts)
    IN  /\ pkgname' = parts
        /\ category' = r.category
        /\ dependencies' = {}
        /\ stack' = << >>
        /\ solved_deps' = {}
        /\ unsolved_deps' = {}
        /\ result' = {}
        /\ IF r.error # ""
           THEN /\ pc' = "raised"
                /\ error' = Raise("DependencyError", r.error, NoPackage)
                /\ versions' = << >>
           ELSE IF ~HasKey(db, r.category, r.name)
           THEN /\ pc' = "raised"
                /\ error' = Raise("InvalidKeyError", "no such key", NoPackage)
                /\ versions' = << >>
           ELSE /\ pc' = "solving"
                /\ error' = NoError
                /\ versions' = list_package_versions(db, r.category, r.name)

\* line 380: every version is solved
GetDependenciesReturn ==
    /\ pc = "solving"
    /\ TopLevel
    /\ versions = << >>
    /\ pc' = "returned"
    /\ result' = dependencies
    /\ UNCHANGED <<outside, pkgname, category, versions, dependencies, stack,
                   solved_deps, unsolved_deps, error>>

\* a caller asks for the dependencies of a package name
Resolve ==
    /\ pc \in {"idle", "returned", "raised"}
    /\ \E parts \in PkgNames : GetDependenciesEnter(parts)
    /\ UNCHANGED outside

Init ==
    /\ db \in DBs
    /\ pc = "idle"
    /\ pkgname = << >>
    /\ category = ""
    /\ versions = << >>
    /\ dependencies = {}
    /\ stack = << >>
    /\ solved_deps = {}
    /\ unsolved_deps = {}
    /\ error = NoError
    /\ result = {}
    /\ tree = [d \in Dirs |-> NoDirectory]
    /\ op = NoOp
    /\ pass = NoPass
    /\ prev = NoPrev
    /\ passes = 0
    /\ call = NoCall

Next ==
    \/ Resolve
    \/ SolveAlreadySolved
    \/ SolveCircular
    \/ SolveNotFound
    \/ SolveExpand
    \/ SolveFinish
    \/ GetDependenciesReturn

Spec == Init /\ [][Next]_vars

(***************************************************************************)
(* The dependency graph of a database, for stating the resolver's claims.  *)
(***************************************************************************)
Listed(d, p) ==
    /\ HasKey(d, p.category, p.name)
    /\ p.version \in 1 .. d.listing[<<p.category, p.name>>]

\* the listed packages a described package refers to, whatever the version
\* and operator of the reference
RefEdges(d, p) ==
    IF ~HasDescription(d, p)
    THEN {}
    ELSE LET deps == d.dependencies[<<p.category, p.name>>]
         IN  {q \in AllPackages :
                /\ Listed(d, q)
                /\ \E i \in DOMAIN deps :
                      deps[i].category = q.category /\ deps[i].package = q.name}

RECURSIVE ReachableFrom(_, _)
ReachableFrom(d, S) ==
    LET T == S \cup UNION {RefEdges(d, p) : p \in S}
    IN  IF T = S THEN S ELSE ReachableFrom(d, T)

\* the call got past the name lookup: its start name has versions to solve
Started ==
    /\ pc \in {"solving", "returned", "raised"}
    /\ category # ""
    /\ HasKey(db, category, pkgname[Len(pkgname)])
Finished == pc \in {"returned", "raised"}

StartPackages ==
    {p \in AllPackages :
        /\ p.category = category
        /\ p.name = pkgname[Len(pkgname)]
        /\ Listed(db, p)}

Reach == ReachableFrom(db, StartPackages)
Described(S) == {p \in S : HasDescription(db, p)}

\* p lies on a cycle of described packages
OnCycle(p) ==
    /\ HasDescription(db, p)
    /\ p \in ReachableFrom(db, RefEdges(db, p))
CyclicReach == \E p \in Described(Reach) : OnCycle(p)

\* C1: on an acyclic reachable graph in which every package has a
\* description, resolve returns normally with exactly the listed versions
\* of the start name plus every package reachable through declared
\* references, also when a package is reachable along two paths.
C1_AcyclicResolveReturnsClosure ==
    (Finished /\ Started /\ db.nodesc = {} /\ ~CyclicReach)
        => (pc = "returned" /\ result = Reach)

\* C2: when the reachable graph has a cycle of described packages, resolve
\* ends with the circular-dependency DependencyError, naming a package that
\* lies on a cycle, and never returns a set.
C2_CycleRaisesDependencyError ==
    (Finished /\ Started /\ CyclicReach)
        => /\ pc = "raised"
           /\ error.type = "DependencyError"
           /\ error.what = "circular dependency"
           /\ OnCycle(error.package)

\* C3: lookup misses are soft.  No package without a description is ever
\* in the resolved set, the accumulated dependencies or the result, none is
\* left in the in-progress set, a reference to a missing key never becomes
\* an invocation and never raises, and a resolution that returns still
\* holds every described package its members refer to.
C3_LookupMissesAreSoft ==
    /\ \A p \in solved_deps \cup dependencies \cup result : HasDescription(db, p)
    /\ \A p \in unsolved_deps : HasDescription(db, p)
    /\ \A i \in DOMAIN stack :
          \A j \in DOMAIN stack[i].todo : Listed(db, stack[i].todo[j])
    /\ (pc = "raised" /\ Started)
          => error.type \notin {"KeyError", "InvalidKeyError"}
    /\ pc = "returned"
          => \A p \in result : Described(RefEdges(db, p)) \subseteq result

\* a returned resolution with a member that refers to a missing key, to a
\* listed package without description and to a described package
C3_Witness ==
    /\ pc = "returned"
    /\ \E p \in result :
          LET deps == db.dependencies[<<p.category, p.name>>]
          IN  /\ \E i \in DOMAIN deps :
                    ~HasKey(db, deps[i].category, deps[i].package)
              /\ \E q \in RefEdges(db, p) : ~HasDescription(db, q)
              /\ \E q \in RefEdges(db, p) : q \in result

\* C4: a bare name resolves only when exactly one category contains it, and
\* then to that category; no category is the unresolvable-name error, two
\* or more the ambiguous-name error, and no candidate is ever picked.
Holders(name) == {c \in Cats : in_category(db, c, name)}
BareCall == pc \in {"solving", "returned", "raised"} /\ Len(pkgname) = 1
C4_BareNameNeedsOneCategory ==
    BareCall =>
        LET hs == Holders(pkgname[1])
        IN  /\ hs = {}
                => /\ pc = "raised"
                   /\ error = Raise("DependencyError", "no package found",
                                     NoPackage)
            /\ Cardinality(hs) >= 2
                => /\ pc = "raised"
                   /\ error = Raise("DependencyError", "ambiguous packagename",
                                     NoPackage)
            /\ Cardinality(hs) = 1
                => /\ hs = {category}
                   /\ error.what \notin {"no package found",
                                          "ambiguous packagename"}
            /\ pc = "returned" => hs = {category}

\* a bare name two categories contain has been refused
C4_Witness ==
    /\ BareCall
    /\ Cardinality(Holders(pkgname[1])) >= 2
    /\ pc = "raised"
    /\ error.what = "ambiguous packagename"

\* C5: version selection ignores constraints.  A returned result holds
\* every described version of the start name and of every name a member
\* refers to, whatever version and operator the reference carries, and it
\* is the union of the closures of the listed versions of the start name.
C5_AllVersionsPulledIn ==
    pc = "returned" =>
        /\ Described(StartPackages) \subseteq result
        /\ \A p \in result :
              LET deps == db.dependencies[<<p.category, p.name>>]
              IN  \A i \in DOMAIN deps : \A v \in Versions :
                     LET q == Package(deps[i].category, deps[i].package, v)
                     IN  (q \in AllPackages /\ HasDescription(db, q))
                            => q \in result
        /\ result = UNION {Described(ReachableFrom(db, {s})) : s \in StartPackages}

\* a returned result with a member whose reference "=...-1" brought in
\* version 2 of the referenced name, for a start name with two versions
C5_Witness ==
    /\ pc = "returned"
    /\ Cardinality(StartPackages) >= 2
    /\ \E p \in result :
          LET deps == db.dependencies[<<p.category, p.name>>]
          IN  \E i \in DOMAIN deps :
                 /\ deps[i].operator = "="
                 /\ deps[i].version = 1
                 /\ Package(deps[i].category, deps[i].package, 2) \in result

\* the packages of the active invocations, outermost first
ActivePath == {stack[i].package : i \in DOMAIN stack}

\* the sets while a closure is computed
C24_Sets ==
    pc \in {"solving", "returned", "raised"} =>
        /\ solved_deps \cap unsolved_deps = {}
        /\ solved_deps \cup unsolved_deps \subseteq AllPackages
        /\ unsolved_deps = ActivePath
        /\ Cardinality(ActivePath) = Len(stack)
        /\ pc = "returned" => unsolved_deps = {}

\* a package becomes resolved: it is the innermost active invocation, it
\* was in progress and its loop over the references is over; a top-level
\* invocation hands its resolved set to get_dependencies and leaves
\* nothing in progress
C24_Moves ==
    (pc = "solving" /\ pc' = "solving") =>
        /\ \A p \in (solved_deps' \cup dependencies')
                        \ (solved_deps \cup dependencies) :
              /\ stack # << >>
              /\ p = Top.package
              /\ p \in unsolved_deps
              /\ p \notin unsolved_deps'
              /\ Top.todo = << >>
        /\ \A p \in unsolved_deps \ unsolved_deps' :
              /\ p = Top.package
              /\ p \in solved_deps' \cup dependencies'
        /\ (stack # << >> /\ stack' = << >>) => unsolved_deps' = {}

\* C24: while solve_dependencies computes a closure the resolved set and
\* the in-progress set are disjoint sets of packages, the in-progress set
\* is exactly the set of packages on the active path of the recursion, a
\* package moves from in-progress to resolved only when the loop over its
\* dependency references is over, and a top-level call that returns
\* leaves the in-progress set empty.
C24_ResolverSets == []C24_Sets /\ [][C24_Moves]_vars

\* a nested invocation whose loop is over, with two packages in progress
\* and one resolved
C24_Witness ==
    /\ pc = "solving"
    /\ Len(stack) = 2
    /\ Top.todo = << >>
    /\ solved_deps # {}
    /\ Cardinality(unsolved_deps) = 2

(***************************************************************************)
(* The tree synchronizer: Backend.generate_tree and Backend.update_tree.   *)
(* The loops over packages and package names are folds over the sequence   *)
(* the loop iterates.                                                      *)
(***************************************************************************)
\* the namespaces orphan cleanup leaves alone (line 724)
protected == {"eclass", "profiles", "metadata"}

\* category.name.startswith('.'), over the names of the universe
StartsWithDot(name) == name \in {".git"}

DirOf(package) == <<package.category, package.name>>

\* sorted(): the package names in string order
SortedCatpkgNames ==
    << <<"c1", "a">>, <<"c1", "b">>, <<"c1", "c">>,
       <<"c2", "a">>, <<"c2", "b">>, <<"c2", "c">> >>

sorted(names) == SelectSeq(SortedCatpkgNames, LAMBDA n : n \in names)

\* the order in which a loop meets a set of packages, for an order iter of
\* the versions: what a loop leaves behind depends on the order only
\* through the order of the versions of one package name
IterationOrder(packages, iter) ==
    LET n == Len(SortedCatpkgNames)
        every ==
            [k \in 1 .. n * Len(iter) |->
                Package(SortedCatpkgNames[((k - 1) % n) + 1][1],
                        SortedCatpkgNames[((k - 1) % n) + 1][2],
                        iter[((k - 1) \div n) + 1])]
    IN  SelectSeq(every, LAMBDA package : package \in packages)

\* iterating the package database yields the versions of a name in
\* ascending order
Ascending == [i \in 1 .. MaxVers |-> i]

\* a pass that ignores the configured list of names
EffectiveSetAlwaysAll(d, packages, deps) == DBPackages(d)

\* lines 551-563 and 669-681: the packages a pass works on
EffectiveSet(d, packages, deps) ==
    IF packages # << >> THEN deps ELSE DBPackages(d)

\* lines 556, 560, 674, 678: the names the effective packages belong to
catpkg_names(d, packages, deps) ==
    IF packages # << >> THEN {DirOf(package) : package \in deps}
    ELSE list_catpkg_names(d)

\* a round that writes metadata.xml only where there is none
UpdatePackageKeepsMetadata(st, package, with_digest) ==
    LET d == DirOf(package)
        path == IF st.tree[d].exists THEN st.tree[d] ELSE EmptyDirectory
        preexists == package.version \in DOMAIN path.ebuilds
        ebuilds ==
            [v \in DOMAIN path.ebuilds \cup {package.version} |->
                IF v = package.version THEN EbuildSource(package, with_digest)
                ELSE path.ebuilds[v]]
    IN  [tree |-> [st.tree EXCEPT ![d] =
                      [path EXCEPT !.ebuilds = ebuilds,
                                   !.metadata = IF path.metadata = NoFile
                                                THEN MetadataSource(package)
                                                ELSE path.metadata]],
         new |-> st.new \cup {<<d, package.version>>},
         total |-> st.total \cup {<<d, v>> : v \in DOMAIN ebuilds},
         generated |-> IF preexists THEN st.generated
                       ELSE st.generated \cup {package},
         kept |-> IF preexists THEN st.kept \cup {package} ELSE st.kept]

\* lines 687-714: one round of the loop of update_tree.  st carries the
\* tree and the locals new, total, generated and kept
UpdatePackage(st, package, with_digest) ==
    LET d == DirOf(package)
        path == IF st.tree[d].exists THEN st.tree[d] ELSE EmptyDirectory
        preexists == package.version \in DOMAIN path.ebuilds
        ebuilds ==
            [v \in DOMAIN path.ebuilds \cup {package.version} |->
                IF v = package.version THEN EbuildSource(package, with_digest)
                ELSE path.ebuilds[v]]
    IN  [tree |-> [st.tree EXCEPT ![d] =
                      [path EXCEPT !.ebuilds = ebuilds,
                                   !.metadata = MetadataSource(package)]],
         new |-> st.new \cup {<<d, package.version>>},
         total |-> st.total \cup {<<d, v>> : v \in DOMAIN ebuilds},
         generated |-> IF preexists THEN st.generated
                       ELSE st.generated \cup {package},
         kept |-> IF preexists THEN st.kept \cup {package} ELSE st.kept]

RECURSIVE UpdatePackages(_, _, _)
UpdatePackages(st, order, with_digest) ==
    IF order = << >> THEN st
    ELSE UpdatePackages(UpdatePackage(st, Head(order), with_digest), Tail(order),
                        with_digest)

\* an update that leaves the ebuilds it did not write where they are
ScrubNothing(t, stale) == t

\* an update that empties every directory in which it finds a stale ebuild
ScrubWholeDirectory(t, stale) ==
    [d \in Dirs |->
        IF \E v \in Versions : <<d, v>> \in stale
        THEN [t[d] EXCEPT !.ebuilds = << >>]
        ELSE t[d]]

\* lines 716-719: stale.unlink() for the ebuilds seen but not written
Scrub(t, stale) ==
    [d \in Dirs |->
        IF \E v \in Versions : <<d, v>> \in stale
        THEN [t[d] EXCEPT !.ebuilds =
                 [v \in {w \in DOMAIN t[d].ebuilds : <<d, w>> \notin stale} |->
                     t[d].ebuilds[v]]]
        ELSE t[d]]

\* a cleanup that looks into every directory of the tree, the reserved and
\* the hidden ones included
OrphansEverywhere(t, seen) ==
    {d \in Dirs : t[d].exists /\ d \notin seen}

\* lines 721-736: the package directories of the tree no processed package
\* belongs to
Orphans(t, seen) ==
    {d \in Dirs :
        /\ t[d].exists
        /\ ~StartsWithDot(d[1])
        /\ d[1] \notin protected
        /\ d \notin seen}

\* a cleanup that does not read args.keep
OrphanCleanupAlwaysDeletes(t, seen, keep) ==
    [d \in Dirs |-> IF d \in Orphans(t, seen) THEN NoDirectory ELSE t[d]]

\* lines 729-736: shutil.rmtree(package) unless args.keep
OrphanCleanup(t, seen, keep) ==
    [d \in Dirs |->
        IF d \in Orphans(t, seen) /\ ~keep THEN NoDirectory ELSE t[d]]

\* what ['ebuild', <an ebuild>, 'manifest'] leaves in a package directory
\* when it succeeds
EbuildManifest(directory) ==
    [directory EXCEPT
        !.has_manifest = TRUE,
        !.manifest = ToolManifest(directory.ebuilds, directory.aux,
                                  directory.metadata, 1 .. MaxDist)]

\* lines 458-476: Backend.digest(overlay, pkgnames, erase), the ebuild tool
\* failing on the directories of fails.  st carries the tree, the
\* directories the tool failed on, those erased, those the loop came to
\* and the exception raised.
\* First a loop that removes the directory of every failure
DigestPackageAlwaysErases(st, pkg, erase, fails) ==
    IF ~st.tree[pkg].exists \/ DOMAIN st.tree[pkg].ebuilds = {}
    THEN [st EXCEPT !.error = "ValueError", !.visited = @ \cup {pkg}]
    ELSE IF pkg \notin fails
    THEN [st EXCEPT !.tree[pkg] = EbuildManifest(@), !.visited = @ \cup {pkg}]
    ELSE [st EXCEPT !.tree[pkg] = NoDirectory, !.erased = @ \cup {pkg},
                    !.failed = @ \cup {pkg}, !.visited = @ \cup {pkg}]

\* lines 462-476: one round of the loop of Backend.digest
DigestPackage(st, pkg, erase, fails) ==
    IF ~st.tree[pkg].exists \/ DOMAIN st.tree[pkg].ebuilds = {}
    THEN [st EXCEPT !.error = "ValueError", !.visited = @ \cup {pkg}]
    ELSE IF pkg \notin fails
    THEN [st EXCEPT !.tree[pkg] = EbuildManifest(@), !.visited = @ \cup {pkg}]
    ELSE IF erase
    THEN [st EXCEPT !.tree[pkg] = NoDirectory, !.erased = @ \cup {pkg},
                    !.failed = @ \cup {pkg}, !.visited = @ \cup {pkg}]
    ELSE [st EXCEPT !.error = "DigestError", !.failed = @ \cup {pkg},
                    !.visited = @ \cup {pkg}]

RECURSIVE DigestPackages(_, _, _, _)
DigestPackages(st, pkgnames, erase, fails) ==
    IF pkgnames = << >> \/ st.error # "" THEN st
    ELSE DigestPackages(DigestPackage(st, Head(pkgnames), erase, fails),
                        Tail(pkgnames), erase, fails)

digest(t, pkgnames, erase, fails) ==
    DigestPackages([tree |-> t, erased |-> {}, failed |-> {}, visited |-> {},
                    error |-> ""],
                   sorted(pkgnames), erase, fails)

\* lines 451-456: Backend.digest(overlay), pkgdev run on the whole overlay
PkgdevManifest(t, fails) ==
    IF fails # {}
    THEN [tree |-> t, erased |-> {}, failed |-> fails,
          error |-> "DigestError"]
    ELSE [tree |-> [d \in Dirs |->
                       IF d \in CatNames /\ t[d].exists
                       THEN EbuildManifest(t[d]) ELSE t[d]],
          erased |-> {}, failed |-> {}, error |-> ""]

\* lines 478-490: Backend.fast_digest(overlay, pkgnames); listing is the
\* order in which a directory listing yields the versions, aux the order
\* in which it yields the files under files/
fast_digest(t, pkgnames, listing, aux) ==
    [d \in Dirs |->
        IF d \in pkgnames /\ t[d].exists
        THEN fast_manifest(
                 t[d],
                 SelectSeq(aux, LAMBDA x : x \in t[d].aux),
                 SelectSeq(listing, LAMBDA v : v \in DOMAIN t[d].ebuilds))
        ELSE t[d]]

\* what a pass may draw on: the arguments digest, keep and erase (left
\* FALSE where the command does not read them), the order iter in which
\* the loop meets the versions, the two listing orders where a fast digest
\* runs, and the directories the tool fails on where the tool runs
Choices(mode, list_mode, effective) ==
    LET iters == IF list_mode THEN Orderings(Versions) ELSE {Ascending}
        keeps == IF mode = "update_tree" THEN BOOLEAN ELSE {FALSE}
        listings == IF mode = "update_tree" THEN Orderings(Versions)
                    ELSE {Ascending}
        names == {DirOf(package) : package \in effective}
    IN  [digest : {FALSE}, keep : keeps, erase : {FALSE}, iter : iters,
         listing : Orderings(Versions), aux : Orderings(1 .. MaxAux),
         fails : {{}}]
        \cup
        [digest : {TRUE}, keep : keeps, erase : BOOLEAN, iter : iters,
         listing : listings, aux : Orderings(1 .. MaxAux),
         fails : {F \in SUBSET names : Cardinality(F) <= MaxFails}]

\* a partition that hands every refreshed name to the fast strategy
todo_pkgnamesAllKept(kept_pkgnames, generated_pkgnames) == kept_pkgnames

\* line 754: todo_pkgnames = kept_pkgnames - generated_pkgnames
todo_pkgnames(kept_pkgnames, generated_pkgnames) ==
    kept_pkgnames \ generated_pkgnames

\* lines 683-758 of update_tree, from the effective set on
UpdateTreeBody(t, effective, names, c) ==
    LET loop == UpdatePackages(
                    [tree |-> t, new |-> {}, total |-> {},
                     generated |-> {}, kept |-> {}],
                    IterationOrder(effective, c.iter), c.digest)
        scrubbed == Scrub(loop.tree, loop.total \ loop.new)
        seen == {DirOf(package) : package \in loop.generated \cup loop.kept}
        cleaned == OrphanCleanup(scrubbed, seen, c.keep)
        generated_pkgnames == {DirOf(package) : package \in loop.generated}
        kept_pkgnames == {DirOf(package) : package \in loop.kept}
        digested == digest(cleaned, generated_pkgnames, c.erase, c.fails)
    IN  [tree |-> IF ~c.digest
                  THEN fast_digest(cleaned, names, c.listing, c.aux)
                  ELSE IF digested.error # "" THEN digested.tree
                  ELSE fast_digest(digested.tree,
                                   todo_pkgnames(kept_pkgnames,
                                                 generated_pkgnames),
                                   c.listing, c.aux),
         generated |-> loop.generated,
         kept |-> loop.kept,
         cleaned |-> IF c.keep THEN {} ELSE Orphans(scrubbed, seen),
         retained |-> IF c.keep THEN Orphans(scrubbed, seen) ELSE {},
         scrubbed |-> loop.total \ loop.new,
         erased |-> IF c.digest THEN digested.erased ELSE {},
         failed |-> IF c.digest THEN digested.failed ELSE {},
         error |-> IF c.digest THEN digested.error ELSE "",
         digested |-> IF c.digest THEN digested.visited ELSE {},
         fast_digested |-> IF ~c.digest THEN names
                           ELSE IF digested.error # "" THEN {}
                           ELSE todo_pkgnames(kept_pkgnames,
                                              generated_pkgnames)]

\* lines 565-582: one round of the loop of generate_tree
GeneratePackage(t, package, with_digest) ==
    LET d == DirOf(package)
        path == IF t[d].exists THEN t[d] ELSE EmptyDirectory
        ebuilds ==
            [v \in DOMAIN path.ebuilds \cup {package.version} |->
                IF v = package.version THEN EbuildSource(package, with_digest)
                ELSE path.ebuilds[v]]
    IN  [t EXCEPT ![d] = [path EXCEPT !.ebuilds = ebuilds,
                                      !.metadata = MetadataSource(package)]]

RECURSIVE GeneratePackages(_, _, _)
GeneratePackages(t, order, with_digest) ==
    IF order = << >> THEN t
    ELSE GeneratePackages(GeneratePackage(t, Head(order), with_digest),
                          Tail(order), with_digest)

\* lines 565-598 of generate_tree, from the effective set on
GenerateTreeBody(t, effective, names, c) ==
    LET loop == GeneratePackages(t, IterationOrder(effective, c.iter),
                                 c.digest)
        digested == PkgdevManifest(loop, c.fails)
    IN  [tree |-> IF ~c.digest
                  THEN fast_digest(loop, names, c.listing, c.aux)
                  ELSE digested.tree,
         generated |-> effective,
         kept |-> {},
         cleaned |-> {},
         retained |-> {},
         scrubbed |-> {},
         erased |-> {},
         failed |-> IF c.digest THEN digested.failed ELSE {},
         error |-> IF c.digest THEN digested.error ELSE "",
         digested |-> {},
         fast_digested |-> IF ~c.digest THEN names ELSE {}]

(***************************************************************************)
(* A pass, step by step: the command starts, resolves the configured       *)
(* names one call of get_dependencies after the other, and then works on   *)
(* the effective set.                                                      *)
(***************************************************************************)
\* the package databases the passes run against: c1/a depends on c1/b and
\* c1/c comes and goes; three more make the resolver meet a package twice,
\* a cycle and a package without description
SyncDBs ==
    {MkDB(na, 1, nc, << <<"c1", "b">> >>, << >>, << >>, FALSE) :
        na \in Versions, nc \in 0 .. 1}
    \cup
    { MkDB(1, 1, 1, << <<"c1", "b">>, <<"c1", "c">> >>, << >>,
           << <<"c1", "b">> >>, FALSE),
      MkDB(1, 1, 0, << <<"c1", "b">> >>, << <<"c1", "a">> >>, << >>, FALSE),
      MkDB(1, 1, 0, << <<"c1", "b">> >>, << >>, << >>, TRUE) }

\* the <repository>_packages settings: none, or a list of names
PackageLists ==
    { << >>,
      << <<"c1", "a">> >>,
      << <<"c1", "b">>, <<"c1", "c">> >>,
      << <<"c1", "b">>, <<"a">> >> }

Summary(p) ==
    IF p.status = "done"
    THEN [mode |-> p.mode, packages |-> p.packages, digest |-> p.digest,
          keep |-> p.keep, erase |-> p.erase, erased |-> p.erased]
    ELSE NoPrev

ResolverIdle ==
    /\ pc' = "idle"
    /\ pkgname' = << >>
    /\ category' = ""
    /\ versions' = << >>
    /\ dependencies' = {}
    /\ stack' = << >>
    /\ solved_deps' = {}
    /\ unsolved_deps' = {}
    /\ error' = NoError
    /\ result' = {}

\* lines 500-548 and 618-667: the command starts; the master repositories
\* are there or not
Begin(mode, packages, masters) ==
    /\ pass.status \in {"idle", "done", "failed"}
    /\ passes < MaxPasses
    /\ passes' = passes + 1
    /\ prev' = Summary(pass)
    /\ pass' = [NoPass EXCEPT
                  !.mode = mode,
                  !.packages = packages,
                  !.todo = packages,
                  !.status = IF ~masters THEN "failed"
                             ELSE IF packages = << >> THEN "ready"
                             ELSE "resolving",
                  !.error = IF masters THEN "" ELSE "return -1"]
    /\ ResolverIdle
    /\ UNCHANGED <<db, op, call>>

\* line 515: rm -rf overlay/*, which the shell expands to the entries
\* that do not start with a dot
RemoveAll(t) ==
    [d \in Dirs |-> IF StartsWithDot(d[1]) THEN t[d] ELSE NoDirectory]

\* lines 516-543 and 631-661: profiles/repo_name is written, and
\* metadata/layout.conf when every master repository is there
Prepare(t, masters) ==
    [d \in Dirs |->
        IF d = <<"profiles", "repo_name">>
           \/ (d = <<"metadata", "layout.conf">> /\ masters)
        THEN EmptyDirectory
        ELSE t[d]]

GenerateTreeBegin ==
    \E packages \in PackageLists, masters \in BOOLEAN :
        /\ Begin("generate_tree", packages, masters)
        /\ tree' = Prepare(RemoveAll(tree), masters)

\* an update that starts like a full regeneration
UpdateTreeBeginRemovesAll ==
    \E packages \in PackageLists, masters \in BOOLEAN :
        /\ Begin("update_tree", packages, masters)
        /\ tree' = Prepare(RemoveAll(tree), masters)

UpdateTreeBegin ==
    \E packages \in PackageLists, masters \in BOOLEAN :
        /\ Begin("update_tree", packages, masters)
        /\ tree' = Prepare(tree, masters)

\* lines 557-558 and 675-676: the next name of the list is resolved
ResolveNext ==
    /\ pass.status = "resolving"
    /\ pc = "idle"
    /\ pass.todo # << >>
    /\ GetDependenciesEnter(Head(pass.todo))
    /\ pass' = [pass EXCEPT !.todo = Tail(@)]
    /\ UNCHANGED <<db, tree, op, prev, passes, call>>

\* dependencies |= self.get_dependencies(pkg_db, pkg)
ResolveReturned ==
    /\ pass.status = "resolving"
    /\ pc = "returned"
    /\ pass' = [pass EXCEPT
                  !.deps = @ \cup result,
                  !.status = IF pass.todo = << >> THEN "ready"
                             ELSE "resolving"]
    /\ ResolverIdle
    /\ UNCHANGED <<db, tree, op, prev, passes, call>>

\* an exception of get_dependencies leaves the command
ResolveRaised ==
    /\ pass.status = "resolving"
    /\ pc = "raised"
    /\ pass' = [pass EXCEPT !.status = "failed", !.error = error.type]
    /\ ResolverIdle
    /\ UNCHANGED <<db, tree, op, prev, passes, call>>

Finish(body, effective, c) ==
    /\ tree' = body.tree
    /\ pass' = [pass EXCEPT
                  !.status = IF body.error = "" THEN "done" ELSE "failed",
                  !.digest = c.digest,
                  !.keep = c.keep,
                  !.erase = c.erase,
                  !.effective = effective,
                  !.generated = body.generated,
                  !.kept = body.kept,
                  !.cleaned = body.cleaned,
                  !.retained = body.retained,
                  !.scrubbed = body.scrubbed,
                  !.erased = body.erased,
                  !.failed = body.failed,
                  !.error = body.error,
                  !.iter = c.iter,
                  !.digested = body.digested,
                  !.fast_digested = body.fast_digested]
    /\ UNCHANGED <<db, resolver_vars, op, prev, passes, call>>

GenerateTree ==
    /\ pass.status = "ready"
    /\ pass.mode = "generate_tree"
    /\ LET effective == EffectiveSet(db, pass.packages, pass.deps)
           names == catpkg_names(db, pass.packages, pass.deps)
       IN  \E c \in Choices(pass.mode, pass.packages # << >>, effective) :
               Finish(GenerateTreeBody(tree, effective, names, c),
                      effective, c)

UpdateTree ==
    /\ pass.status = "ready"
    /\ pass.mode = "update_tree"
    /\ LET effective == EffectiveSet(db, pass.packages, pass.deps)
           names == catpkg_names(db, pass.packages, pass.deps)
       IN  \E c \in Choices(pass.mode, pass.packages # << >>, effective) :
               Finish(UpdateTreeBody(tree, effective, names, c),
                      effective, c)

\* the overlay as found: its reserved and hidden directories, and either
\* no package or the packages an earlier full regeneration wrote from the
\* database as it was then
Pristine ==
    [d \in Dirs |-> IF d \in SpecialDirs THEN EmptyDirectory ELSE NoDirectory]

InitSync ==
    /\ db \in SyncDBs
    /\ pc = "idle"
    /\ pkgname = << >>
    /\ category = ""
    /\ versions = << >>
    /\ dependencies = {}
    /\ stack = << >>
    /\ solved_deps = {}
    /\ unsolved_deps = {}
    /\ error = NoError
    /\ result = {}
    /\ \/ tree = Pristine
       \/ \E before \in SyncDBs :
            \E c \in Choices("generate_tree", FALSE, {}) :
                tree = GenerateTreeBody(Prepare(Pristine, TRUE),
                                        DBPackages(before),
                                        list_catpkg_names(before), c).tree
    /\ op = NoOp
    /\ pass = NoPass
    /\ prev = NoPrev
    /\ passes = 0
    /\ call = NoCall

NextSync ==
    \/ GenerateTreeBegin
    \/ UpdateTreeBegin
    \/ ResolveNext
    \/ SolveAlreadySolved
    \/ SolveCircular
    \/ SolveNotFound
    \/ SolveExpand
    \/ SolveFinish
    \/ GetDependenciesReturn
    \/ ResolveReturned
    \/ ResolveRaised
    \/ GenerateTree
    \/ UpdateTree

SpecSync == InitSync /\ [][NextSync]_vars

(***************************************************************************)
(* The synchronizer's claims.  A category is non-reserved when orphan      *)
(* cleanup looks into it: it is neither one of the protected namespaces    *)
(* nor dot-prefixed.                                                       *)
(***************************************************************************)
NonReserved(cat) == cat \notin protected /\ ~StartsWithDot(cat)

\* the build descriptors of a tree, as (directory, version)
Descriptors(t) ==
    {dv \in Dirs \X Versions : t[dv[1]].exists /\ dv[2] \in DOMAIN t[dv[1]].ebuilds}

DescriptorOf(package) == <<DirOf(package), package.version>>

Completed == pass.status = "done"

\* C6: after any pass that completes (full regeneration, or update with
\* keep true or false), every build descriptor in the tree under a
\* non-reserved category is that of a package of the pass's effective set.
C6_DescriptorsAreEffective ==
    Completed =>
        \A dv \in Descriptors(tree) :
            NonReserved(dv[1][1]) =>
                \E package \in pass.effective : DescriptorOf(package) = dv

\* C6, for the passes that clean: after a full regeneration or an update
\* with keep false that completes, every build descriptor in the tree under
\* a non-reserved category is that of a package of the effective set.
C6_DescriptorsAreEffectiveUnlessKept ==
    (Completed /\ (pass.mode = "generate_tree" \/ ~pass.keep)) =>
        \A dv \in Descriptors(tree) :
            NonReserved(dv[1][1]) =>
                \E package \in pass.effective : DescriptorOf(package) = dv

\* an update with keep false completed after removing an orphan directory,
\* and descriptors are left in the tree
C6_Witness ==
    /\ Completed
    /\ pass.mode = "update_tree"
    /\ ~pass.keep
    /\ pass.cleaned # {}
    /\ Descriptors(tree) # {}

\* the packages a name stands for and the closure resolve() returns for it
NamedPackages(parts) ==
    {p \in AllPackages :
        /\ p.name = parts[Len(parts)]
        /\ Len(parts) = 2 => p.category = parts[1]
        /\ Listed(db, p)}

ResolveOf(parts) == Described(ReachableFrom(db, NamedPackages(parts)))

\* C7: the effective set of a pass is the union of resolve() over the names
\* of the list when a list is given, and every package the database holds
\* otherwise; after a full regeneration with fast digesting that completes,
\* the descriptors in the tree are exactly one per package of that set.
C7_ScopeSelection ==
    Completed =>
        /\ pass.effective =
              IF pass.packages # << >>
              THEN UNION {ResolveOf(pass.packages[i]) :
                             i \in DOMAIN pass.packages}
              ELSE Described({p \in AllPackages : Listed(db, p)})
        /\ (pass.mode = "generate_tree" /\ ~pass.digest) =>
              Descriptors(tree) = {DescriptorOf(p) : p \in pass.effective}

\* a full regeneration with fast digesting completed for a list of two
\* names, over a tree that held other packages before
C7_Witness ==
    /\ Completed
    /\ pass.mode = "generate_tree"
    /\ ~pass.digest
    /\ Len(pass.packages) = 2
    /\ Cardinality(pass.effective) = 2
    /\ pass.effective # DBPackages(db)

\* the package directories under a non-reserved category that hold no
\* package of the effective set
OrphansOf(t, effective) ==
    {d \in Dirs :
        /\ t[d].exists
        /\ NonReserved(d[1])
        /\ \A package \in effective : DirOf(package) # d}

\* C8: an update that completes removes every package directory under a
\* non-reserved category that holds no package of the effective set when
\* keep is false, and leaves it with all its files as before when keep is
\* true.
C8_OrphanCleanup ==
    [][(pass.status = "ready" /\ pass.mode = "update_tree"
        /\ pass'.status = "done") =>
          \A d \in OrphansOf(tree, pass'.effective) :
              IF pass'.keep THEN tree'[d] = tree[d]
              ELSE ~tree'[d].exists]_vars

\* an update with keep true completed and kept an orphan directory with its
\* descriptors and Manifest
C8_Witness ==
    /\ Completed
    /\ pass.mode = "update_tree"
    /\ pass.keep
    /\ \E d \in pass.retained :
          /\ tree[d].ebuilds # << >>
          /\ tree[d].has_manifest

\* the descriptor and metadata files of a tree
DescriptorAndMetadataFiles(t) ==
    [d \in Dirs |-> IF t[d].exists
                    THEN [ebuilds |-> t[d].ebuilds, metadata |-> t[d].metadata]
                    ELSE [ebuilds |-> << >>, metadata |-> NoFile]]

\* the step is the second of two updates in succession, both completing
\* with the same configuration and arguments and without a failure of
\* the ebuild tool
SecondUpdate ==
    /\ pass.status = "ready"
    /\ pass.mode = "update_tree"
    /\ pass'.status = "done"
    /\ prev = [mode |-> "update_tree", packages |-> pass.packages,
               digest |-> pass'.digest, keep |-> pass'.keep,
               erase |-> pass'.erase, erased |-> {}]
    /\ pass'.erased = {}

\* C9: the second of two updates in succession against an unchanged
\* database leaves the descriptor and metadata files as they were after
\* the first, and classifies every package of the effective set as
\* refreshed and none as generated.
C9_UpdateIdempotent ==
    [][SecondUpdate =>
          /\ DescriptorAndMetadataFiles(tree') = DescriptorAndMetadataFiles(tree)
          /\ pass'.generated = {}
          /\ pass'.kept = pass'.effective]_vars

\* the names update_tree hands to Backend.digest
GeneratedNames(p) == {DirOf(package) : package \in p.generated}

\* the versions of a package name that a pass writes
WrittenVersions(p, d) ==
    {package.version : package \in {q \in p.effective : DirOf(q) = d}}

\* the step in which update_tree works on its effective set
UpdateStep == pass.status = "ready" /\ pass.mode = "update_tree"

\* C13: Backend.digest called with package names by update_tree: when the
\* tool fails for a package and erase is set, the package directory is
\* gone, the warning is logged, no error is raised and every other package
\* of the list has the Manifest of the tool; when it fails and erase is not
\* set, DigestError is raised and the directory is there with the
\* descriptors written and the Manifest it had.
C13_PerPackageDigestFailure ==
    [][(UpdateStep /\ pass'.digest) =>
          \A d \in pass'.failed :
              IF pass'.erase
              THEN /\ ~tree'[d].exists
                   /\ d \in pass'.erased
                   /\ pass'.error = ""
                   /\ \A g \in GeneratedNames(pass') \ pass'.failed :
                         /\ tree'[g].exists
                         /\ tree'[g] = EbuildManifest(tree'[g])
              ELSE /\ pass'.error = "DigestError"
                   /\ tree'[d].exists
                   /\ DOMAIN tree'[d].ebuilds = WrittenVersions(pass', d)
                   /\ tree'[d].has_manifest = tree[d].has_manifest
                   /\ tree'[d].manifest = tree[d].manifest]_vars

\* an update with digest and erase completed although the tool failed on
\* one of two generated package names: one directory is erased, the other
\* digested
C13_Witness ==
    /\ Completed
    /\ pass.mode = "update_tree"
    /\ pass.digest
    /\ pass.erase
    /\ pass.erased # {}
    /\ \E g \in GeneratedNames(pass) \ pass.failed :
          DistLines(tree[g].manifest) # << >>

\* C14: in a full regeneration with digest and erase, a failure of the
\* tool is not fatal: the pass completes and the affected package
\* directory is removed.
C14_RegenerationSurvivesToolFailure ==
    (pass.mode = "generate_tree" /\ pass.digest /\ pass.erase
     /\ pass.failed # {}) =>
        /\ pass.status = "done"
        /\ \A d \in pass.failed : ~tree[d].exists

\* the exceptions get_dependencies raises for a name it cannot resolve
ResolutionErrors == {"DependencyError", "InvalidKeyError"}

\* C15: a resolution error for one name of the list does not end the
\* pass: the pass goes on with the other names.
C15_ResolutionErrorsAreConfined ==
    (pass.mode # "" /\ pass.error \in ResolutionErrors) => pass.status # "failed"

\* C18: in an update, every touched package directory that the pass leaves
\* in the tree holds exactly the descriptors written in the pass: each
\* descriptor that was there and was not written is deleted and no
\* written one is; an untouched directory that stays keeps its descriptors.
C18_StaleDescriptorsScrubbed ==
    [][UpdateStep =>
          \A d \in Dirs :
              IF WrittenVersions(pass', d) # {}
              THEN d \notin pass'.erased =>
                      /\ tree'[d].exists
                      /\ DOMAIN tree'[d].ebuilds = WrittenVersions(pass', d)
              ELSE tree'[d].exists => tree'[d].ebuilds = tree[d].ebuilds]_vars

\* an update with keep completed after unlinking a stale descriptor, and
\* an untouched directory is still there with its descriptors
C18_Witness ==
    /\ Completed
    /\ pass.mode = "update_tree"
    /\ pass.scrubbed # {}
    /\ \E d \in pass.retained : tree[d].ebuilds # << >>

(***************************************************************************)
(* The Manifest digest engine on one package directory.                    *)
(***************************************************************************)
TheDir == <<"c1", "a">>

\* the package directories the digest engine may be run on
ManifestDirectories ==
    { [exists |-> TRUE,
       ebuilds |-> [v \in E |->
                      EbuildSource(Package(TheDir[1], TheDir[2], v), f)],
       aux |-> A,
       metadata |-> IF m THEN MetadataSource(Package(TheDir[1], TheDir[2], 1))
                    ELSE NoFile,
       has_manifest |-> h,
       manifest |->
          IF h
          THEN ToolManifest(
                   [v \in P |->
                       EbuildSource(Package(TheDir[1], TheDir[2], v), TRUE)],
                   {}, NoFile, D)
          ELSE << >>] :
        E \in SUBSET Versions, f \in BOOLEAN, A \in SUBSET (1 .. MaxAux),
        m \in BOOLEAN, h \in BOOLEAN,
        P \in SUBSET Versions, D \in SUBSET (1 .. MaxDist) }

SomeDB == MkDB(1, 1, 0, << >>, << >>, << >>, FALSE)

InitManifest ==
    /\ db = SomeDB
    /\ pc = "idle"
    /\ pkgname = << >>
    /\ category = ""
    /\ versions = << >>
    /\ dependencies = {}
    /\ stack = << >>
    /\ solved_deps = {}
    /\ unsolved_deps = {}
    /\ error = NoError
    /\ result = {}
    /\ \E directory \in ManifestDirectories :
          tree = [d \in Dirs |-> IF d = TheDir THEN directory ELSE NoDirectory]
    /\ op = NoOp
    /\ pass = NoPass
    /\ prev = NoPrev
    /\ passes = 0
    /\ call = NoCall

\* the package names the digest engine is called for: a directory that is
\* there and one that is not
ManifestTargets == {TheDir, <<"c1", "b">>}

\* fast_manifest(directory): on a missing directory the listings are
\* empty and open(manifest_path, 'w') raises
FastManifest ==
    \E d \in ManifestTargets :
        /\ IF tree[d].exists
           THEN /\ \E auxs \in Orderings(tree[d].aux),
                      ebuilds \in Orderings(DOMAIN tree[d].ebuilds) :
                      tree' = [tree EXCEPT ![d] = fast_manifest(@, auxs, ebuilds)]
                /\ op' = [name |-> "fast_manifest", dir |-> d, error |-> ""]
           ELSE /\ tree' = tree
                /\ op' = [name |-> "fast_manifest", dir |-> d,
                          error |-> "FileNotFoundError"]
        /\ UNCHANGED <<db, resolver_vars, pass, prev, passes, call>>

\* Backend.fast_digest(overlay, [pkgname])
FastDigest ==
    \E d \in ManifestTargets :
        /\ \E listing \in Orderings(Versions), aux \in Orderings(1 .. MaxAux) :
              tree' = fast_digest(tree, {d}, listing, aux)
        /\ op' = [name |-> "fast_digest", dir |-> d, error |-> ""]
        /\ UNCHANGED <<db, resolver_vars, pass, prev, passes, call>>

\* lines 569-582: a descriptor of the package and its metadata.xml are
\* written
WritePackage ==
    \E v \in Versions, with_digest \in BOOLEAN :
        /\ tree' = GeneratePackage(tree, Package(TheDir[1], TheDir[2], v),
                                   with_digest)
        /\ op' = [name |-> "write", dir |-> TheDir, error |-> ""]
        /\ UNCHANGED <<db, resolver_vars, pass, prev, passes, call>>

\* line 719: stale.unlink() on a descriptor of the directory
Unlink ==
    \E v \in DOMAIN tree[TheDir].ebuilds :
        /\ tree' = Scrub(tree, {<<TheDir, v>>})
        /\ op' = [name |-> "unlink", dir |-> TheDir, error |-> ""]
        /\ UNCHANGED <<db, resolver_vars, pass, prev, passes, call>>

NextManifest ==
    \/ FastManifest
    \/ FastDigest
    \/ WritePackage
    \/ Unlink

SpecManifest == InitManifest /\ [][NextManifest]_vars

IsSorted(lines) ==
    \A i, j \in DOMAIN lines : i < j => ~LineLess(lines[j], lines[i])

\* C10: every Manifest the fast strategy writes has its lines in
\* lexicographic order, with or without a Manifest before the run and in
\* whatever order the directory listing yields the files.
C10_FastManifestSorted ==
    \A d \in Dirs :
        (op.name = "fast_manifest" /\ op.dir = d) => IsSorted(tree[d].manifest)

\* a step in which the fast strategy runs on directory d
FastRun(d) ==
    /\ op'.name \in {"fast_manifest", "fast_digest"}
    /\ op'.dir = d
    /\ op'.error = ""
    /\ tree[d].exists

\* the fast strategy ran last on d, and no file of d changed since
JustRan(d) ==
    /\ op.name \in {"fast_manifest", "fast_digest"}
    /\ op.dir = d
    /\ op.error = ""
    /\ tree[d].exists

\* C11: while the descriptors, the metadata file and the auxiliary files
\* of a package directory do not change, every run of the fast strategy
\* writes the same Manifest: a run that follows a run, the creating one
\* included, leaves the Manifest as it found it.
C11_FastManifestDeterministic ==
    [][\A d \in ManifestTargets :
          (JustRan(d) /\ FastRun(d)) => tree'[d].manifest = tree[d].manifest]_vars

\* the entries of the files a package directory holds
FreshEntries(directory) ==
    {ManifestEntry("AUX", x, AuxSource(x)) : x \in directory.aux}
    \cup {ManifestEntry("EBUILD", v, directory.ebuilds[v]) :
             v \in DOMAIN directory.ebuilds}
    \cup (IF directory.metadata # NoFile
          THEN {ManifestEntry("MISC", 1, directory.metadata)}
          ELSE {})

\* C12: after the fast strategy has run on a package directory, the
\* non-DIST lines of its Manifest are exactly one freshly computed entry per
\* file present: none for a missing file, none missing, none kept from the
\* Manifest before.
C12_EntriesAreFresh ==
    \A d \in ManifestTargets :
        JustRan(d) =>
            LET lines == NonDistLines(tree[d].manifest)
            IN  /\ {lines[i] : i \in DOMAIN lines} = FreshEntries(tree[d])
                /\ Len(lines) = Cardinality(FreshEntries(tree[d]))

\* the fast strategy ran on a directory whose Manifest was there before
\* (it has DIST lines), after a descriptor was written by the generator
\* without digest
C12_Witness ==
    /\ JustRan(TheDir)
    /\ DistLines(tree[TheDir].manifest) # << >>
    /\ \E v \in DOMAIN tree[TheDir].ebuilds : ~tree[TheDir].ebuilds[v].digest
    /\ tree[TheDir].metadata # NoFile

\* a step in which the fast strategy is called for directory d, whatever
\* it finds there
FastCall(d) ==
    /\ op'.name \in {"fast_manifest", "fast_digest"}
    /\ op'.dir = d

\* an expected file of directory d is missing: the directory itself, every
\* descriptor, or the metadata file
MissingExpectedFile(d) ==
    \/ ~tree[d].exists
    \/ DOMAIN tree[d].ebuilds = {}
    \/ tree[d].metadata = NoFile

\* C19: the fast strategy never deletes a directory, and a call that finds
\* the package directory, its descriptor or its metadata file missing
\* raises an error and writes nothing, instead of skipping the package or
\* writing a Manifest without that file.
C19_MissingFileIsHardError ==
    [][\A d \in ManifestTargets :
          FastCall(d) =>
              /\ tree[d].exists => tree'[d].exists
              /\ MissingExpectedFile(d) =>
                    /\ op'.error # ""
                    /\ tree'[d] = tree[d]]_vars

\* C20: a run of the fast strategy on a package directory carries the DIST
\* lines of its Manifest over verbatim: the DIST lines after the run are the
\* DIST lines before it, none lost, none duplicated, none altered, whatever
\* descriptors were written or removed since the run before.
C20_DistLinesCarriedOver ==
    [][\A d \in ManifestTargets :
          FastRun(d) =>
              SortLines(DistLines(tree'[d].manifest))
                  = SortLines(DistLines(tree[d].manifest))]_vars

\* the fast strategy ran on a directory whose descriptors are all gone, and
\* the Manifest still has every DIST line
C20_Witness ==
    /\ JustRan(TheDir)
    /\ Len(DistLines(tree[TheDir].manifest)) = MaxDist
    /\ DOMAIN tree[TheDir].ebuilds = {}
    /\ tree[TheDir].has_manifest

(***************************************************************************)
(* Version (g_collections.py).  None is modelled as -1: components and     *)
(* qualifiers are non-negative integers.                                   *)
(***************************************************************************)
None == -1

Version(components, suffix, alpha, beta, pre, rc, p, revision) ==
    [components |-> components, suffix |-> suffix, alpha |-> alpha,
     beta |-> beta, pre |-> pre, rc |-> rc, p |-> p, revision |-> revision]

\* components + ((0,) * (l - len(components)))
Pad(components, l) ==
    components \o [i \in 1 .. (l - Len(components)) |-> 0]

\* sc < oc on two tuples of integers of one length
TupleLess(sc, oc) ==
    \E i \in 1 .. Len(sc) :
        /\ sc[i] < oc[i]
        /\ \A j \in 1 .. (i - 1) : sc[j] = oc[j]

\* self.suffix < other.suffix on strings of at most one lower-case letter
Letters == <<"", "a", "b">>
StrLess(x, y) ==
    \E i, j \in DOMAIN Letters : Letters[i] = x /\ Letters[j] = y /\ i < j

Max(x, y) == IF x < y THEN y ELSE x

\* the attributes __lt__ walks through, and the sign of each
Attrs == <<"alpha", "beta", "pre", "rc", "p", "revision">>
\* every attribute taken for a pre-release qualifier
SignAllPreRelease(attr) == -1
Sign(attr) == IF attr \in {"p", "revision"} THEN 1 ELSE -1
Int01(b) == IF b THEN 1 ELSE 0

Version__eq__(self, other) ==
    LET l == Max(Len(self.components), Len(other.components))
        sc == Pad(self.components, l)
        oc == Pad(other.components, l)
    IN  IF sc # oc
        THEN FALSE
        ELSE /\ self.suffix = other.suffix
             /\ \A i \in DOMAIN Attrs : self[Attrs[i]] = other[Attrs[i]]

Version__lt__(self, other) ==
    LET l == Max(Len(self.components), Len(other.components))
        sc == Pad(self.components, l)
        oc == Pad(other.components, l)
        differ == {i \in DOMAIN Attrs : self[Attrs[i]] # other[Attrs[i]]}
    IN  IF sc # oc THEN TupleLess(sc, oc)
        ELSE IF self.suffix # other.suffix
        THEN StrLess(self.suffix, other.suffix)
        ELSE IF differ # {}
        THEN LET i == CHOOSE k \in differ : \A m \in differ : k <= m
                 sa == self[Attrs[i]]
                 oa == other[Attrs[i]]
             IN  IF sa # None /\ oa # None
                 THEN sa < oa
                 ELSE Sign(Attrs[i]) * Int01(sa # None)
                          < Sign(Attrs[i]) * Int01(oa # None)
        ELSE FALSE

\* the reversed components without their leading zeros
RECURSIVE DropLeadingZeros(_)
DropLeadingZeros(t) ==
    IF t # << >> /\ t[1] = 0 THEN DropLeadingZeros(Tail(t)) ELSE t

Reversed(t) == [i \in 1 .. Len(t) |-> t[Len(t) + 1 - i]]

\* the tuple __hash__ hashes: the normalized components followed by the
\* seven attributes (kept apart here, the attributes are always seven)
Version__hash__(self) ==
    <<DropLeadingZeros(Reversed(self.components)),
      <<self.suffix, self.alpha, self.beta, self.pre, self.rc, self.p,
        self.revision>> >>

\* the versions compared: 1, 1.0, 1.1, ... with a suffix letter and
\* numbered qualifiers, at most MaxQualifiers of them on one version
ComponentTuples ==
    UNION {{<<1>> \o t : t \in [1 .. n -> 0 .. MaxNumber]} :
              n \in 0 .. (MaxComponents - 1)}
Qualifier == {None} \cup (1 .. MaxQualifier)
Qualifiers(v) ==
    Cardinality({i \in DOMAIN Attrs : v[Attrs[i]] # None})
        + Int01(v.suffix # "")
VersionUniverse ==
    {v \in {Version(c, s, alpha, beta, pre, rc, p, revision) :
               c \in ComponentTuples,
               s \in {Letters[i] : i \in DOMAIN Letters},
               alpha \in Qualifier, beta \in Qualifier, pre \in Qualifier,
               rc \in Qualifier, p \in Qualifier, revision \in Qualifier} :
        Qualifiers(v) <= MaxQualifiers}

\* the two versions to compare are drawn
InitVersion ==
    /\ db = SomeDB
    /\ pc = "idle"
    /\ pkgname = << >>
    /\ category = ""
    /\ versions = << >>
    /\ dependencies = {}
    /\ stack = << >>
    /\ solved_deps = {}
    /\ unsolved_deps = {}
    /\ error = NoError
    /\ result = {}
    /\ tree = [d \in Dirs |-> NoDirectory]
    /\ op = NoOp
    /\ pass = NoPass
    /\ prev = NoPrev
    /\ passes = 0
    /\ \E self \in VersionUniverse, other \in VersionUniverse :
          call = [fn |-> "", self |-> self, other |-> other]

\* the two versions are compared and hashed: self < other, self == other,
\* other < self, hash(self), hash(other)
Compare ==
    /\ call.fn = ""
    /\ call' = [fn |-> "compare", self |-> call.self, other |-> call.other,
                lt |-> Version__lt__(call.self, call.other),
                eq |-> Version__eq__(call.self, call.other),
                gt |-> Version__lt__(call.other, call.self),
                hash_self |-> Version__hash__(call.self),
                hash_other |-> Version__hash__(call.other)]
    /\ UNCHANGED <<db, resolver_vars, tree, op, pass, prev, passes>>

NextVersion == Compare

SpecVersion == InitVersion /\ [][NextVersion]_vars

\* other is self with one more trailing zero component
TrailingZero(self, other) ==
    other = [self EXCEPT !.components = @ \o <<0>>]

\* other is self without the qualifier attr, which self has
Without(self, other, attr) ==
    /\ self[attr] # None
    /\ other = [self EXCEPT ![attr] = None]

\* 1.0_alpha1 < 1.0_alpha2 < 1.0 < 1.0-r1
Chain ==
    LET v(alpha, revision) ==
            Version(<<1, 0>>, "", alpha, None, None, None, None, revision)
    IN  <<v(1, None), v(2, None), v(None, None), v(None, 1)>>

\* C16: Version comparison is a total order consistent with equality: of
\* self < other, self == other and other < self exactly one holds; < is
\* transitive; versions that differ by a trailing zero component are equal
\* and hash alike; components compare as integers; alpha, beta, pre and rc
\* sort before their absence, p and revision after it; and
\* 1.0_alpha1 < 1.0_alpha2 < 1.0 < 1.0-r1.
C16_VersionTotalOrder ==
    call.fn = "compare" =>
        LET self == call.self
            other == call.other
        IN  /\ Int01(call.lt) + Int01(call.eq) + Int01(call.gt) = 1
            /\ call.lt =>
                  \A third \in VersionUniverse :
                      Version__lt__(other, third) => Version__lt__(self, third)
            /\ call.eq =>
                  /\ call.hash_self = call.hash_other
                  /\ \A third \in VersionUniverse :
                        Version__lt__(self, third) = Version__lt__(other, third)
            /\ TrailingZero(self, other) =>
                  call.eq /\ call.hash_self = call.hash_other
            /\ (/\ Len(self.components) = Len(other.components)
                /\ self.components # other.components) =>
                  call.lt = TupleLess(self.components, other.components)
            /\ \A attr \in {"alpha", "beta", "pre", "rc"} :
                  Without(self, other, attr) => call.lt
            /\ \A attr \in {"p", "revision"} :
                  Without(self, other, attr) => call.gt
            /\ \A i \in 1 .. 3 :
                  (self = Chain[i] /\ other = Chain[i + 1]) => call.lt

\* 1.0-r1 was compared with 1.0, and 1 with 1.0
C16_Witness ==
    /\ call.fn = "compare"
    /\ \/ call.self = Chain[4] /\ call.other = Chain[3] /\ call.gt
       \/ /\ TrailingZero(call.self, call.other)
          /\ call.self.alpha # None
          /\ call.eq

(***************************************************************************)
(* Dependency (g_collections.py).  A string is the sequence of its         *)
(* characters, so that formatting concatenates and parsing splits.  The    *)
(* character classes of the regular expression are cut down to the         *)
(* characters the values below are made of.                                *)
(***************************************************************************)
Letter == {"c", "d", "f", "p", "q", "r", "x"}
Digit == {"0", "1", "2"}
UseflagClass == Letter \cup Digit \cup {"+", "_", "@", "-"}
AtomClass == Letter \cup Digit \cup {"=", "<", ">", "!", "~", "+", "_", ".", "/", "-"}
Space == {" "}

DigitOf(n) == <<"0", "1", "2">>[n + 1]

\* Dependency.__init__: the fields and the formatted string, or ValueError
Dependency__init__(cat, package, version, operator, usedep, useflag) ==
    LET atom_str ==
            IF operator # << >> /\ version # << >>
            THEN operator \o cat \o <<"/">> \o package \o <<"-">> \o version
            ELSE cat \o <<"/">> \o package
        with_usedep ==
            IF usedep # << >>
            THEN atom_str \o <<"[">> \o usedep \o <<"]">>
            ELSE atom_str
        formatted ==
            IF useflag # << >>
            THEN useflag \o <<"?", " ", "(", " ">> \o with_usedep \o <<" ", ")">>
            ELSE with_usedep
    IN  [error |-> IF (version # << >>) # (operator # << >>)
                   THEN "ValueError" ELSE "",
         formatted |-> formatted, category |-> cat, package |-> package,
         version |-> version, operator |-> operator, usedep |-> usedep,
         useflag |-> useflag]

\* the length of the longest prefix of s made of characters of class
Span(s, class) ==
    CHOOSE n \in 0 .. Len(s) :
        /\ \A i \in 1 .. n : s[i] \in class
        /\ n = Len(s) \/ s[n + 1] \notin class

Drop(s, n) == SubSeq(s, n + 1, Len(s))
Take(s, n) == SubSeq(s, 1, n)
DropSpaces(s) == Drop(s, Span(s, Space))
DropOptional(s, ch) == IF s # << >> /\ s[1] = ch THEN Tail(s) ELSE s

\* the positions of character ch in s
Positions(s, ch) == {i \in DOMAIN s : s[i] = ch}
Last(S) == CHOOSE i \in S : \A j \in S : j <= i
First(S) == CHOOSE i \in S : \A j \in S : i <= j

\* re.fullmatch of the pattern of deserialize: the three groups, or no
\* match.  Each repetition is greedy, and no shorter repetition can match
\* where the longest does not, since what follows a class in the pattern
\* is never a character of that class.
Match(value) ==
    LET n == Span(value, UseflagClass)
        flagged == n >= 1 /\ n < Len(value) /\ value[n + 1] = "?"
        rawuseflag == IF flagged THEN Take(value, n) ELSE << >>
        afterflag == IF flagged THEN Drop(value, n + 1) ELSE value
        body == DropSpaces(DropOptional(DropSpaces(afterflag), "("))
        m == Span(body, AtomClass)
        rawatom == Take(body, m)
        afteratom == Drop(body, m)
        bracketed == afteratom # << >> /\ afteratom[1] = "["
                        /\ Positions(afteratom, "]") # {}
        close == Last(Positions(afteratom, "]"))
        rawusedep == IF bracketed THEN SubSeq(afteratom, 2, close - 1) ELSE << >>
        afterdep == IF bracketed THEN Drop(afteratom, close) ELSE afteratom
        rest == DropOptional(DropSpaces(afterdep), ")")
    IN  [ok |-> rest = << >>, rawuseflag |-> rawuseflag, rawatom |-> rawatom,
         rawusedep |-> rawusedep]

\* portage.dep.get_operator(atom): the comparison the atom starts with
get_operator(atom) ==
    IF Len(atom) >= 2 /\ Take(atom, 2) \in {<<">", "=">>, <<"<", "=">>}
    THEN Take(atom, 2)
    ELSE IF atom # << >> /\ atom[1] \in {"=", "<", ">", "~"}
    THEN Take(atom, 1)
    ELSE << >>

\* portage.dep.dep_getcpv(atom): the atom without its operator
dep_getcpv(atom) == Drop(atom, Len(get_operator(atom)))

\* portage.catsplit(cpv): split at the first "/"
catsplit(cpv) ==
    LET i == First(Positions(cpv, "/"))
    IN  <<Take(cpv, i - 1), Drop(cpv, i)>>

\* "r" followed by digits
IsRevision(s) ==
    /\ Len(s) >= 2
    /\ s[1] = "r"
    /\ \A i \in 2 .. Len(s) : s[i] \in Digit

\* portage.pkgsplit(rest): (package, version, revision), the version
\* without its -rN and the revision "r0" when there is none
pkgsplit(rest) ==
    LET dashes == Positions(rest, "-")
        last == Last(dashes)
        tail == Drop(rest, last)
    IN  IF IsRevision(tail) /\ Cardinality(dashes) >= 2
        THEN LET head == Take(rest, last - 1)
                 prev_dash == Last(Positions(head, "-"))
             IN  <<Take(head, prev_dash - 1), Drop(head, prev_dash), tail>>
        ELSE <<Take(rest, last - 1), tail, <<"r", "0">> >>

\* Dependency.deserialize(value): mo.groups() on no match raises
\* AttributeError
deserialize(value) ==
    LET mo == Match(value)
        operator == get_operator(mo.rawatom)
        cpv == dep_getcpv(mo.rawatom)
        split == catsplit(cpv)
        parts == pkgsplit(split[2])
    IN  IF ~mo.ok
        THEN [Dependency__init__(<< >>, << >>, << >>, << >>, << >>, << >>)
                 EXCEPT !.error = "AttributeError"]
        ELSE IF operator # << >>
        THEN Dependency__init__(split[1], parts[1], parts[2], operator,
                        mo.rawusedep, mo.rawuseflag)
        ELSE Dependency__init__(split[1], split[2], << >>, << >>,
                        mo.rawusedep, mo.rawuseflag)

\* the arguments a Dependency is built from
DepCategories == {<<"c">>, <<"d">>}
DepPackages == {<<"p">>, <<"p", "-", "q">>}
DepVersions ==
    {<< >>, <<"1">>, <<"1", ".", "0">>}
    \cup {<<"1", "-", "r", DigitOf(n)>> : n \in 1 .. MaxRevision}
DepOperators == {<< >>, <<"=">>, <<">", "=">>, <<"~">>}
DepUsedeps == {<< >>, <<"x">>}
DepUseflags == {<< >>, <<"f">>, <<"!", "f">>}

\* the arguments are drawn
InitDependency ==
    /\ db = SomeDB
    /\ pc = "idle"
    /\ pkgname = << >>
    /\ category = ""
    /\ versions = << >>
    /\ dependencies = {}
    /\ stack = << >>
    /\ solved_deps = {}
    /\ unsolved_deps = {}
    /\ error = NoError
    /\ result = {}
    /\ tree = [d \in Dirs |-> NoDirectory]
    /\ op = NoOp
    /\ pass = NoPass
    /\ prev = NoPrev
    /\ passes = 0
    /\ \E c \in DepCategories, p \in DepPackages, v \in DepVersions,
          o \in DepOperators, usedep \in DepUsedeps, useflag \in DepUseflags :
          call = [fn |-> "", args |-> <<c, p, v, o, usedep, useflag>>]

\* d = Dependency(category, package, version, operator, usedep, useflag)
Construct ==
    /\ call.fn = ""
    /\ call' = [fn |-> "Dependency", args |-> call.args,
                d |-> Dependency__init__(call.args[1], call.args[2], call.args[3],
                                 call.args[4], call.args[5], call.args[6])]
    /\ UNCHANGED <<db, resolver_vars, tree, op, pass, prev, passes>>

\* Dependency.deserialize(d.serialize())
Deserialize ==
    /\ call.fn = "Dependency"
    /\ call.d.error = ""
    /\ call' = [fn |-> "deserialize", args |-> call.args, d |-> call.d,
                back |-> deserialize(call.d.formatted)]
    /\ UNCHANGED <<db, resolver_vars, tree, op, pass, prev, passes>>

NextDependency ==
    \/ Construct
    \/ Deserialize

SpecDependency == InitDependency /\ [][NextDependency]_vars

\* C17: for every Dependency d the constructor accepts,
\* Dependency.deserialize(d.serialize()) raises nothing and has the
\* category, package, version, operator, usedep and useflag of d.
C17_DependencyRoundTrip ==
    call.fn = "deserialize" =>
        /\ call.back.error = ""
        /\ call.back.category = call.d.category
        /\ call.back.package = call.d.package
        /\ call.back.version = call.d.version
        /\ call.back.operator = call.d.operator
        /\ call.back.usedep = call.d.usedep
        /\ call.back.useflag = call.d.useflag

\* a version with a revision, or a negated use flag
Revisioned(d) == \E i \in 1 .. (Len(d.version) - 1) :
                     d.version[i] = "-" /\ d.version[i + 1] = "r"
Negated(d) == d.useflag # << >> /\ d.useflag[1] = "!"

\* the round trip of a Dependency without revision and without negated
\* use flag
C17_RoundTripOfPlainDependency ==
    (call.fn = "deserialize" /\ ~Revisioned(call.d) /\ ~Negated(call.d)) =>
        /\ call.back.error = ""
        /\ call.back = call.d

(***************************************************************************)
(* More claims on the synchronizer.                                        *)
(***************************************************************************)
\* the directories and files under eclass, profiles, metadata and under
\* dot-prefixed directories
Reserved == {d \in Dirs : ~NonReserved(d[1])}

\* C22: the step in which update_tree works on its effective set, orphan
\* cleanup included, leaves everything under eclass, profiles, metadata and
\* under dot-prefixed directories as it was, with keep true and with keep
\* false, also when a sub-directory there matches no package of the
\* effective set.
C22_ReservedUntouched ==
    [][UpdateStep => \A d \in Reserved : tree'[d] = tree[d]]_vars

\* an update with keep false completed and removed an orphan package
\* directory, and the sub-directories of the reserved and hidden
\* directories are still there
C22_Witness ==
    /\ Completed
    /\ pass.mode = "update_tree"
    /\ ~pass.keep
    /\ pass.cleaned # {}
    /\ \A d \in SpecialDirs : tree[d].exists /\ d \in Reserved

\* the package directories of a tree with all their files
PackagePart(t) == [d \in CatNames |-> t[d]]

\* a step of an update before it works on its effective set: the command
\* starts, or a name of its list is being resolved
BeforeProcessing == pass'.mode = "update_tree" /\ ~UpdateStep

\* C26: an update that fails before package processing, a master
\* repository missing or the resolution of a configured name raising, has
\* created, changed and removed no package directory, descriptor, metadata
\* file or Manifest: no step of an update before it works on its
\* effective set changes the package part of the tree.
C26_FailedUpdateLeavesPackages ==
    [][BeforeProcessing => PackagePart(tree') = PackagePart(tree)]_vars

\* an update failed on the resolution of a configured name, over a tree
\* that holds package directories with descriptors and a Manifest
C26_Witness ==
    /\ pass.mode = "update_tree"
    /\ pass.status = "failed"
    /\ pass.error \in ResolutionErrors
    /\ pass.generated = {}
    /\ tree[<<"profiles", "repo_name">>].exists
    /\ \E d \in CatNames : tree[d].ebuilds # << >> /\ tree[d].has_manifest

\* the names of a set of packages
NamesOf(packages) == {DirOf(package) : package \in packages}

\* the pass is an update with digesting requested that worked on its
\* effective set
DigestingUpdate ==
    /\ pass.mode = "update_tree"
    /\ pass.digest
    /\ pass.status \in {"done", "failed"}

\* C21: in an update with digesting requested no touched name is digested
\* by both strategies: Backend.digest works on names with a version
\* generated in the pass only, Backend.fast_digest on names with refreshed
\* versions only; when the pass completes, the first has worked on every
\* name with a generated version and the second on every other touched
\* name, the one leaving the Manifest of the tool and the other a Manifest
\* of fresh entries.
C21_DigestPartition ==
    DigestingUpdate =>
        LET touched == NamesOf(pass.generated \cup pass.kept)
            generated_names == NamesOf(pass.generated)
        IN  /\ pass.digested \cap pass.fast_digested = {}
            /\ pass.digested \subseteq generated_names
            /\ pass.fast_digested \subseteq touched \ generated_names
            /\ pass.status = "done" =>
                  /\ pass.digested = generated_names
                  /\ pass.fast_digested = touched \ generated_names
                  /\ pass.digested \cup pass.fast_digested = touched
                  /\ \A d \in pass.digested \ pass.erased :
                        tree[d].manifest = EbuildManifest(tree[d]).manifest
                  /\ \A d \in pass.fast_digested :
                        LET lines == NonDistLines(tree[d].manifest)
                        IN  {lines[i] : i \in DOMAIN lines}
                                = FreshEntries(tree[d])

\* an update with digesting completed in which one name had a version
\* generated and a version refreshed, and another name only refreshed
\* versions
C21_Witness ==
    /\ DigestingUpdate
    /\ pass.status = "done"
    /\ NamesOf(pass.generated) \cap NamesOf(pass.kept) # {}
    /\ pass.fast_digested # {}
    /\ pass.digested # {}

\* the versions of name d in the effective set, in the order the loop met
\* them
VersionsInOrder(d) ==
    SelectSeq(pass.iter,
              LAMBDA v : Package(d[1], d[2], v) \in pass.effective)

\* C23: after a pass has worked on its effective set, every version of a
\* name of the set has its own descriptor, with the content generated for
\* that version, all of them side by side, and the metadata file of the
\* directory is the metadata generated for the version the loop met last.
C23_MetadataLastWriteWins ==
    \A d \in NamesOf(pass.effective) \ pass.erased :
        LET order == VersionsInOrder(d)
        IN  /\ tree[d].exists
            /\ \A i \in DOMAIN order :
                  /\ order[i] \in DOMAIN tree[d].ebuilds
                  /\ tree[d].ebuilds[order[i]]
                        = EbuildSource(Package(d[1], d[2], order[i]),
                                       pass.digest)
            /\ tree[d].metadata
                  = MetadataSource(Package(d[1], d[2], order[Len(order)]))

\* a pass completed in which the loop met version 2 of a name before
\* version 1: both descriptors are there and the metadata is that of
\* version 1
C23_Witness ==
    /\ Completed
    /\ \E d \in NamesOf(pass.effective) :
          /\ VersionsInOrder(d) = <<2, 1>>
          /\ DOMAIN tree[d].ebuilds = {1, 2}
          /\ tree[d].metadata.version = 1

\* the package directories of a tree, their descriptors and metadata files
PackageFiles(t) ==
    [d \in CatNames |->
        [exists |-> t[d].exists, ebuilds |-> t[d].ebuilds,
         metadata |-> t[d].metadata]]

\* the trees a full regeneration with fast digesting can leave when it is
\* run on tree t for the configured names of the pass
Regenerated(t) ==
    LET effective == EffectiveSet(db, pass.packages, pass.deps)
        names == catpkg_names(db, pass.packages, pass.deps)
    IN  {GenerateTreeBody(Prepare(RemoveAll(t), TRUE), effective, names, c).tree :
            c \in {x \in Choices("generate_tree", pass.packages # << >>,
                                 effective) : ~x.digest}}

\* the step is an update with keep false and fast digesting that completes
CleaningUpdate ==
    /\ UpdateStep
    /\ pass'.status = "done"
    /\ ~pass'.keep
    /\ ~pass'.digest

\* C25: an update with keep false and fast digesting that completes leaves
\* the package directories, the descriptor files and the descriptor and
\* metadata contents that a full regeneration leaves when it is run on the
\* same tree, database and name list.
C25_ModeEquivalence ==
    [][CleaningUpdate =>
          \A t \in Regenerated(tree) : PackageFiles(tree') = PackageFiles(t)]_vars

\* the same for the passes without a name list, which iterate the
\* database
C25_ModeEquivalenceWithoutList ==
    [][(CleaningUpdate /\ pass.packages = << >>) =>
          \A t \in Regenerated(tree) : PackageFiles(tree') = PackageFiles(t)]_vars

====
